---- MODULE Spec2Model ----
(***************************************************************************)
(* Model of the Spotify "recently played" pipeline.                        *)
(*                                                                         *)
(* Two variants of the pipeline live in the repository and write the same  *)
(* PostgreSQL tables (my_played_tracks, fav_artist):                       *)
(*   "dag"    Dags/spotify_etl_dag.py + Dags/spotify_etl.py                *)
(*   "script" load_music_data_to_postgres.py + data_processing.py +        *)
(*            spotify_data_extractor.py                                    *)
(*                                                                         *)
(* The script imports its stages as Extract and Transform; the repository   *)
(* holds them as spotify_data_extractor.py (get_recently_played_tracks)    *)
(* and data_processing.py (Data_Quality, Transform_df), which the model    *)
(* takes for the script's extractor, gate and aggregator.                  *)
(*                                                                         *)
(* Strings are sequences of one-character strings, so that slicing         *)
(* (played_at[:10]), concatenation (timestamp + "-" + artist_name) and     *)
(* Python's code-point ordering are computed, not assumed.                 *)
(***************************************************************************)
EXTENDS Integers, Sequences, FiniteSets, TLC

VARIABLES
    events,      \* table my_played_tracks: [exists, pk, rows]
    fav,         \* table fav_artist:       [exists, pk, rows]
    pc,          \* position of the current run
    variant,     \* "dag" | "script" | "none": which pipeline is running
    response,    \* what the Spotify API answers in the current run
    df,          \* the DataFrame of the current run (raw_df / load_df)
    transformed, \* the aggregated DataFrame of the current run
    log,         \* what happened in the current run, per stage
    outcome,     \* how the last finished run ended
    runs,        \* number of runs started so far
    batch,       \* input of the aggregator when it is exercised on its own
    out          \* outputs of the two aggregators on batch

vars == <<events, fav, pc, variant, response, df, transformed, log, outcome,
          runs, batch, out>>

-----------------------------------------------------------------------------
(* Bounds of the model *)

MaxItems == 2     \* items in one API response
MaxRuns == 2      \* pipeline runs
MaxBatch == 3     \* events of a batch handed to the aggregator on its own

-----------------------------------------------------------------------------
(* Strings *)

\* Python None (JSON null) and a key that is absent from a JSON object.
\* Both are one-element tuples holding a word, so they differ from every
\* string, whose elements are single characters.
None == <<"None">>
Missing == <<"KeyError">>

\* Code points of the characters the model uses (Python compares str by them).
Ord == [c \in {"-", "0", "1", "2", "4", "A", "B", "S", "T"} |->
          CASE c = "-" -> 45 [] c = "0" -> 48 [] c = "1" -> 49 [] c = "2" -> 50
            [] c = "4" -> 52 [] c = "A" -> 65 [] c = "B" -> 66 [] c = "S" -> 83
            [] c = "T" -> 84]

\* a < b for Python str
RECURSIVE StrLess(_, _)
StrLess(a, b) ==
    IF b = <<>> THEN FALSE
    ELSE IF a = <<>> THEN TRUE
    ELSE IF Ord[Head(a)] # Ord[Head(b)] THEN Ord[Head(a)] < Ord[Head(b)]
    ELSE StrLess(Tail(a), Tail(b))

\* s[:n] for Python str
Prefix(s, n) == SubSeq(s, 1, IF Len(s) < n THEN Len(s) ELSE n)

\* played_at[:10]
DateLen == 10

-----------------------------------------------------------------------------
(* The Spotify API *)

SongS == <<"S">>
ArtistA == <<"A">>
ArtistB == <<"B">>
T1 == <<"2","0","2","4","-","0","1","-","0","1","T","1","0">>   \* 2024-01-01T10
T2 == <<"2","0","2","4","-","0","1","-","0","1","T","1","1">>   \* 2024-01-01T11
T3 == <<"2","0","2","4","-","0","1","-","0","1","T","1","2">>   \* 2024-01-01T12
T4 == <<"2","0","2","4","-","0","1","-","0","2","T","1","0">>   \* 2024-01-02T10

\* One element of "items". name is item["track"]["name"], artist is
\* item["track"]["album"]["artists"][0]["name"], played_at is item["played_at"];
\* each is a string, None, or Missing when a key on its path is absent.
Item(n, a, p) == [name |-> n, artist |-> a, played_at |-> p]

\* The plays the API may report, most recent first (the order of "items").
ApiItems ==
    << Item(SongS, ArtistB, T4),
       Item(<<>>, ArtistA, T4),          \* a track whose name is ""
       Item(SongS, ArtistB, T3),
       Item(SongS, ArtistA, T2),
       Item(None, ArtistA, T2),          \* "name": null
       Item(SongS, Missing, T2),         \* no track.album.artists
       Item(SongS, ArtistA, T1),
       Item(Missing, Missing, T1),       \* no track
       Item(SongS, ArtistA, Missing) >>  \* no played_at

\* the elements of s at the positions in P, in the order of s
RECURSIVE Pick(_, _)
Pick(s, P) ==
    IF P = {} THEN <<>>
    ELSE LET m == CHOOSE i \in P : \A j \in P : i <= j
         IN  <<s[m]>> \o Pick(s, P \ {m})

\* the item lists of at most n items
ItemLists(n) ==
    { Pick(ApiItems, P) : P \in { Q \in SUBSET (1..Len(ApiItems)) : Cardinality(Q) <= n } }

SeqsUpTo(S, n) == UNION { [1..k -> S] : k \in 0..n }

\* What requests.get(...) / raise_for_status() / response.json() give:
\* a transport failure or non-2xx status, a body without "items", or a body
\* whose "items" is a list.
ApiResponses ==
    { [kind |-> "http_error", items |-> <<>>],
      [kind |-> "no_items",   items |-> <<>>] }
    \cup { [kind |-> "ok", items |-> its] : its \in ItemLists(MaxItems) }

-----------------------------------------------------------------------------
(* DataFrames: sequences of rows *)

Row(s, a, p, t) == [song_name |-> s, artist_name |-> a, played_at |-> p, timestamp |-> t]

\* pd.DataFrame({...}) of four lists: "All arrays must be of the same length"
SameLength(l) ==
    /\ Len(l.song_names) = Len(l.artist_names)
    /\ Len(l.song_names) = Len(l.played_at_list)
    /\ Len(l.song_names) = Len(l.timestamps)

DataFrame(l) ==
    [i \in 1..Len(l.song_names) |->
        Row(l.song_names[i], l.artist_names[i], l.played_at_list[i], l.timestamps[i])]

NoLists == [song_names |-> <<>>, artist_names |-> <<>>, played_at_list |-> <<>>,
            timestamps |-> <<>>, error |-> "none"]

Raised(e) == [ok |-> FALSE, error |-> e, df |-> <<>>]
Returned(d) == [ok |-> TRUE, error |-> "none", df |-> d]

-----------------------------------------------------------------------------
(* Extractor of the DAG variant: return_dataframe *)

\* The body of the for loop for one item. Each append happens as soon as its
\* value was looked up; a KeyError leaves the earlier appends of the item in
\* place and is logged as a warning. played_at[:10] of None is a TypeError,
\* which the loop does not catch.
AppendItem(l, item) ==
    IF l.error # "none" THEN l
    ELSE IF item.name = Missing THEN l
    ELSE LET l1 == [l EXCEPT !.song_names = Append(@, item.name)]
         IN  IF item.artist = Missing THEN l1
             ELSE LET l2 == [l1 EXCEPT !.artist_names = Append(@, item.artist)]
                  IN  IF item.played_at = Missing THEN l2
                      ELSE LET l3 == [l2 EXCEPT !.played_at_list = Append(@, item.played_at)]
                           IN  IF item.played_at = None
                               THEN [l3 EXCEPT !.error = "TypeError"]
                               ELSE [l3 EXCEPT !.timestamps =
                                              Append(@, Prefix(item.played_at, DateLen))]

RECURSIVE ExtractLoop(_, _)
ExtractLoop(l, items) ==
    IF items = <<>> THEN l
    ELSE ExtractLoop(AppendItem(l, Head(items)), Tail(items))

return_dataframe(resp) ==
    IF resp.kind = "http_error" THEN Raised("RequestException")
    ELSE LET items == IF resp.kind = "no_items" THEN <<>> ELSE resp.items
             l == ExtractLoop(NoLists, items)
         IN  IF l.error # "none" THEN Raised(l.error)
             ELSE IF ~SameLength(l) THEN Raised("ValueError")
             ELSE Returned(DataFrame(l))

-----------------------------------------------------------------------------
(* Extractor of the script variant: get_recently_played_tracks *)

\* The loop has no handler of its own: the first item with an absent key
\* raises KeyError out of the function, a None played_at a TypeError that
\* the function re-raises as RuntimeError.
RECURSIVE TracksLoop(_, _)
TracksLoop(l, items) ==
    IF items = <<>> \/ l.error # "none" THEN l
    ELSE LET item == Head(items)
         IN  IF Missing \in {item.name, item.artist, item.played_at}
             THEN [l EXCEPT !.error = "KeyError"]
             ELSE IF item.played_at = None
             THEN [l EXCEPT !.error = "RuntimeError"]
             ELSE TracksLoop(
                    [song_names |-> Append(l.song_names, item.name),
                     artist_names |-> Append(l.artist_names, item.artist),
                     played_at_list |-> Append(l.played_at_list, item.played_at),
                     timestamps |-> Append(l.timestamps, Prefix(item.played_at, DateLen)),
                     error |-> "none"],
                    Tail(items))

get_recently_played_tracks(resp) ==
    IF resp.kind = "http_error" THEN Raised("ConnectionError")
    ELSE IF resp.kind = "no_items" THEN Raised("RuntimeError")
    ELSE LET l == TracksLoop(NoLists, resp.items)
         IN  IF l.error # "none" THEN Raised(l.error) ELSE Returned(DataFrame(l))

-----------------------------------------------------------------------------
(* Quality gate *)

\* Series.is_unique of column played_at
is_unique(d) == \A i, j \in 1..Len(d) : d[i].played_at = d[j].played_at => i = j

\* df.isnull().values.any(): some cell is None. An empty string is not null.
isnull_any(d) ==
    \E i \in 1..Len(d) :
        None \in {d[i].song_name, d[i].artist_name, d[i].played_at, d[i].timestamp}

\* data_quality without its is_unique check
data_quality_NoUniqueCheck(d) ==
    IF d = <<>> THEN "False"
    ELSE IF isnull_any(d) THEN "ValueError"
    ELSE "True"

\* data_quality of Dags/spotify_etl.py: "False" and "True" are its return
\* values, "ValueError" is raised.
data_quality(d) ==
    IF d = <<>> THEN "False"
    ELSE IF ~is_unique(d) THEN "ValueError"
    ELSE IF isnull_any(d) THEN "ValueError"
    ELSE "True"

\* Data_Quality of data_processing.py: the same checks, raising Exception.
Data_Quality(d) ==
    IF d = <<>> THEN "False"
    ELSE IF is_unique(d) THEN
        IF isnull_any(d) THEN "Exception" ELSE "True"
    ELSE "Exception"

-----------------------------------------------------------------------------
(* Aggregator *)

\* groupby(['timestamp', 'artist_name']): the group keys. dropna=True (the
\* default) leaves out the rows with a null key.
GroupKeys(d) ==
    { <<d[i].timestamp, d[i].artist_name>> :
        i \in { j \in 1..Len(d) : d[j].timestamp # None /\ d[j].artist_name # None } }

\* the order of tuples of str
KeyLess(k1, k2) ==
    \/ StrLess(k1[1], k2[1])
    \/ k1[1] = k2[1] /\ StrLess(k1[2], k2[2])

\* sort=True (the default): the groups come in ascending order of their keys
RECURSIVE SortedKeys(_)
SortedKeys(K) ==
    IF K = {} THEN <<>>
    ELSE LET m == CHOOSE k \in K : \A o \in K \ {k} : KeyLess(k, o)
         IN  <<m>> \o SortedKeys(K \ {m})

Group(d, k) == { i \in 1..Len(d) : d[i].timestamp = k[1] /\ d[i].artist_name = k[2] }

AggRow(k, n) == [ID |-> k[1] \o <<"-">> \o k[2], timestamp |-> k[1],
                 artist_name |-> k[2], count |-> n]

\* transform_df with .nunique() for .size(): the count is the number of
\* distinct song names of the group
transform_df_nunique(d) ==
    LET ks == SortedKeys(GroupKeys(d))
    IN  [g \in 1..Len(ks) |->
            AggRow(ks[g], Cardinality({ d[i].song_name : i \in Group(d, ks[g]) }))]

\* the group keys in the order of their first row
RECURSIVE FirstSeenKeys(_, _)
FirstSeenKeys(d, acc) ==
    IF d = <<>> THEN acc
    ELSE LET k == <<Head(d).timestamp, Head(d).artist_name>>
         IN  FirstSeenKeys(Tail(d),
                IF None \in {k[1], k[2]} \/ \E g \in 1..Len(acc) : acc[g] = k
                THEN acc ELSE Append(acc, k))

\* transform_df with groupby(..., sort=False): the groups come in the order
\* in which the batch first shows them
transform_df_unsorted(d) ==
    LET ks == FirstSeenKeys(d, <<>>)
    IN  [g \in 1..Len(ks) |-> AggRow(ks[g], Cardinality(Group(d, ks[g])))]

\* transform_df of Dags/spotify_etl.py: .size() is the number of rows of the group
transform_df(d) ==
    LET ks == SortedKeys(GroupKeys(d))
    IN  [g \in 1..Len(ks) |-> AggRow(ks[g], Cardinality(Group(d, ks[g])))]

\* Transform_df of data_processing.py: .count() is the number of non-null
\* cells of each remaining column; the played_at column is renamed to count.
Transform_df(d) ==
    LET ks == SortedKeys(GroupKeys(d))
    IN  [g \in 1..Len(ks) |->
            AggRow(ks[g], Cardinality({ i \in Group(d, ks[g]) : d[i].played_at # None }))]

-----------------------------------------------------------------------------
(* The store: two PostgreSQL tables written with DataFrame.to_sql *)

NoTable == [exists |-> FALSE, pk |-> FALSE, rows |-> <<>>]

\* CREATE TABLE IF NOT EXISTS ... PRIMARY KEY (...)
CreateTableIfNotExists(t) ==
    IF t.exists THEN t ELSE [exists |-> TRUE, pk |-> TRUE, rows |-> <<>>]

KeysOf(rows, col) == { rows[i][col] : i \in 1..Len(rows) }

KeyUnique(rows, col) == \A i, j \in 1..Len(rows) : rows[i][col] = rows[j][col] => i = j

\* to_sql(..., if_exists="append"): one INSERT of all rows of the frame in one
\* transaction. Without the table, pandas creates it from the frame (no
\* constraint). With the primary key, a row whose key is already stored, is
\* repeated in the frame or is null makes the whole INSERT fail.
\* up: whether the store can be reached and written.
ToSqlAppend(t, frame, col, up) ==
    IF ~up THEN [table |-> t, result |-> "OperationalError"]
    ELSE IF ~t.exists
    THEN [table |-> [exists |-> TRUE, pk |-> FALSE, rows |-> frame], result |-> "ok"]
    ELSE IF /\ t.pk
            /\ \/ ~KeyUnique(frame, col)
               \/ KeysOf(frame, col) \cap KeysOf(t.rows, col) # {}
               \/ None \in KeysOf(frame, col)
    THEN [table |-> t, result |-> "IntegrityError"]
    ELSE [table |-> [t EXCEPT !.rows = @ \o frame], result |-> "ok"]

\* to_sql(..., if_exists="replace"): DROP TABLE, then a new table created from
\* the frame (plain columns, no constraint) that holds the frame's rows.
ToSqlReplace(t, frame, up) ==
    IF ~up THEN [table |-> t, result |-> "OperationalError"]
    ELSE [table |-> [exists |-> TRUE, pk |-> FALSE, rows |-> frame], result |-> "ok"]

\* load_data_to_db with both writes in one try block: an exception of the
\* first write skips the second
load_data_to_db_OneTry(ev, fv, load_df, transformed_df, up1, up2) ==
    LET w1 == ToSqlAppend(ev, load_df, "played_at", up1)
        w2 == ToSqlAppend(fv, transformed_df, "ID", up2)
    IN  IF w1.result = "ok"
        THEN [events |-> w1.table, fav |-> w2.table,
              events_write |-> w1.result, fav_write |-> w2.result]
        ELSE [events |-> ev, fav |-> fv,
              events_write |-> w1.result, fav_write |-> "not_called"]

\* load_data_to_db: both writes are attempted; an exception of either is
\* printed and swallowed.
load_data_to_db(ev, fv, load_df, transformed_df, up1, up2) ==
    LET w1 == ToSqlAppend(ev, load_df, "played_at", up1)
        w2 == ToSqlAppend(fv, transformed_df, "ID", up2)
    IN  [events |-> w1.table, fav |-> w2.table,
         events_write |-> w1.result, fav_write |-> w2.result]

-----------------------------------------------------------------------------
(* Pipeline runs *)

NoResponse == [kind |-> "none", items |-> <<>>]

\* What a run has done so far: how each stage ended, "not_called" if it did
\* not execute.
NoLog == [extract |-> "not_called", gate |-> "not_called", aggregate |-> "not_called",
          events_write |-> "not_called", fav_write |-> "not_called"]

NoOut == [dag |-> <<>>, script |-> <<>>, done |-> {}]

Init ==
    /\ events = NoTable
    /\ fav = NoTable
    /\ pc = "idle"
    /\ variant = "none"
    /\ response = NoResponse
    /\ df = <<>>
    /\ transformed = <<>>
    /\ log = NoLog
    /\ outcome = "none"
    /\ runs = 0
    /\ batch = <<>>
    /\ out = NoOut

\* The run ends: etl_process returns ("success") or raises ("failed"); the
\* script prints "Процесс завершён успешно." ("success") or "Произошла ошибка"
\* ("failed").
Finish(o) == pc' = "done" /\ outcome' = o

\* The scheduler triggers the DAG, or the script is started; the API will
\* answer with r.
Start ==
    /\ pc \in {"idle", "done"}
    /\ runs < MaxRuns
    /\ \E v \in {"dag", "script"}, r \in ApiResponses :
          /\ variant' = v
          /\ response' = r
          /\ pc' = IF v = "dag" THEN "create_table" ELSE "extract"
    /\ runs' = runs + 1
    /\ df' = <<>>
    /\ transformed' = <<>>
    /\ log' = NoLog
    /\ outcome' = "running"
    /\ UNCHANGED <<events, fav, batch, out>>

(* DAG variant: create_table >> run_etl *)

\* task create_table
create_table ==
    /\ variant = "dag" /\ pc = "create_table"
    /\ events' = CreateTableIfNotExists(events)
    /\ pc' = "extract"
    /\ UNCHANGED <<fav, variant, response, df, transformed, log, outcome, runs, batch, out>>

\* spotify_etl, step 1: raw_df = return_dataframe(); an exception is logged
\* and re-raised by spotify_etl and by etl_process.
spotify_etl_extract ==
    /\ variant = "dag" /\ pc = "extract"
    /\ LET r == return_dataframe(response)
       IN  IF r.ok
           THEN /\ df' = r.df
                /\ log' = [log EXCEPT !.extract = "ok"]
                /\ pc' = "quality"
                /\ UNCHANGED outcome
           ELSE /\ log' = [log EXCEPT !.extract = "raised"]
                /\ Finish("failed")
                /\ UNCHANGED df
    /\ UNCHANGED <<events, fav, variant, response, transformed, runs, batch, out>>

\* spotify_etl going on to the transformation although data_quality raised
spotify_etl_quality_ContinuesOnReject ==
    /\ variant = "dag" /\ pc = "quality"
    /\ LET q == data_quality(df)
       IN  /\ log' = [log EXCEPT !.gate = q]
           /\ CASE q = "False" -> Finish("success") /\ df' = <<>>
                [] OTHER       -> pc' = "transform" /\ UNCHANGED <<outcome, df>>
    /\ UNCHANGED <<events, fav, variant, response, transformed, runs, batch, out>>

\* spotify_etl, step 2: if not data_quality(raw_df): return pd.DataFrame(),
\* on which etl_process prints "Пропуск загрузки" and returns.
spotify_etl_quality ==
    /\ variant = "dag" /\ pc = "quality"
    /\ LET q == data_quality(df)
       IN  /\ log' = [log EXCEPT !.gate = q]
           /\ CASE q = "True"  -> pc' = "transform" /\ UNCHANGED <<outcome, df>>
                [] q = "False" -> Finish("success") /\ df' = <<>>
                [] OTHER       -> Finish("failed") /\ UNCHANGED df
    /\ UNCHANGED <<events, fav, variant, response, transformed, runs, batch, out>>

\* spotify_etl, step 3: transformed_df = transform_df(raw_df) is printed and
\* raw_df is returned to etl_process, which returns at once if it is empty.
spotify_etl_transform ==
    /\ variant = "dag" /\ pc = "transform"
    /\ transformed' = transform_df(df)
    /\ log' = [log EXCEPT !.aggregate = "called"]
    /\ pc' = IF df = <<>> THEN "done" ELSE "load"
    /\ outcome' = IF df = <<>> THEN "success" ELSE outcome
    /\ UNCHANGED <<events, fav, variant, response, df, runs, batch, out>>

\* etl_process, steps 2 and 3: df.to_sql("my_played_tracks", if_exists="replace");
\* an exception is printed and re-raised.
etl_process_load ==
    /\ variant = "dag" /\ pc = "load"
    /\ \E up \in BOOLEAN :
          LET w == ToSqlReplace(events, df, up)
          IN  /\ events' = w.table
              /\ log' = [log EXCEPT !.events_write = w.result]
              /\ Finish(IF w.result = "ok" THEN "success" ELSE "failed")
    /\ UNCHANGED <<fav, variant, response, df, transformed, runs, batch, out>>

(* Script variant: __main__ of load_music_data_to_postgres.py *)

\* step 1: load_df = the extractor's DataFrame; any exception ends in the
\* handler of __main__, which prints it.
main_extract ==
    /\ variant = "script" /\ pc = "extract"
    /\ LET r == get_recently_played_tracks(response)
       IN  IF r.ok
           THEN /\ df' = r.df
                /\ log' = [log EXCEPT !.extract = "ok"]
                /\ pc' = "quality"
                /\ UNCHANGED outcome
           ELSE /\ log' = [log EXCEPT !.extract = "raised"]
                /\ Finish("failed")
                /\ UNCHANGED df
    /\ UNCHANGED <<events, fav, variant, response, transformed, runs, batch, out>>

\* step 2: if not Transform.Data_Quality(load_df): raise ValueError(...)
main_quality ==
    /\ variant = "script" /\ pc = "quality"
    /\ LET q == Data_Quality(df)
       IN  /\ log' = [log EXCEPT !.gate = q]
           /\ IF q = "True"
              THEN pc' = "transform" /\ UNCHANGED outcome
              ELSE Finish("failed")
    /\ UNCHANGED <<events, fav, variant, response, df, transformed, runs, batch, out>>

\* step 3: transformed_df = Transform.Transform_df(load_df)
main_transform ==
    /\ variant = "script" /\ pc = "transform"
    /\ transformed' = Transform_df(df)
    /\ log' = [log EXCEPT !.aggregate = "called"]
    /\ pc' = "create_tables"
    /\ UNCHANGED <<events, fav, variant, response, df, outcome, runs, batch, out>>

\* step 4: create_tables(engine)
create_tables ==
    /\ variant = "script" /\ pc = "create_tables"
    /\ events' = CreateTableIfNotExists(events)
    /\ fav' = CreateTableIfNotExists(fav)
    /\ pc' = "load"
    /\ UNCHANGED <<variant, response, df, transformed, log, outcome, runs, batch, out>>

\* step 5: load_data_to_db(engine, load_df, transformed_df), then
\* "Процесс завершён успешно." whatever the two writes did.
main_load ==
    /\ variant = "script" /\ pc = "load"
    /\ \E up1, up2 \in BOOLEAN :
          LET w == load_data_to_db(events, fav, df, transformed, up1, up2)
          IN  /\ events' = w.events
              /\ fav' = w.fav
              /\ log' = [log EXCEPT !.events_write = w.events_write,
                                    !.fav_write = w.fav_write]
    /\ Finish("success")
    /\ UNCHANGED <<variant, response, df, transformed, runs, batch, out>>

Next ==
    \/ Start
    \/ create_table
    \/ spotify_etl_extract
    \/ spotify_etl_quality
    \/ spotify_etl_transform
    \/ etl_process_load
    \/ main_extract
    \/ main_quality
    \/ main_transform
    \/ create_tables
    \/ main_load

Spec == Init /\ [][Next]_vars

-----------------------------------------------------------------------------
(* The aggregators on their own *)

\* The events the extractors make of the items without an absent key.
Events ==
    { Row(ApiItems[i].name, ApiItems[i].artist, ApiItems[i].played_at,
          Prefix(ApiItems[i].played_at, DateLen)) :
        i \in { j \in 1..Len(ApiItems) :
                  Missing \notin {ApiItems[j].name, ApiItems[j].artist, ApiItems[j].played_at} } }

Batches == SeqsUpTo(Events, MaxBatch)

AggInit ==
    /\ events = NoTable
    /\ fav = NoTable
    /\ pc = "idle"
    /\ variant = "none"
    /\ response = NoResponse
    /\ df = <<>>
    /\ transformed = <<>>
    /\ log = NoLog
    /\ outcome = "none"
    /\ runs = 0
    /\ batch \in Batches
    /\ out = NoOut

\* transform_df(batch)
AggregateDag ==
    /\ "dag" \notin out.done
    /\ out' = [out EXCEPT !.dag = transform_df(batch), !.done = @ \cup {"dag"}]
    /\ UNCHANGED <<events, fav, pc, variant, response, df, transformed, log, outcome,
                   runs, batch>>

\* Transform_df(batch)
AggregateScript ==
    /\ "script" \notin out.done
    /\ out' = [out EXCEPT !.script = Transform_df(batch), !.done = @ \cup {"script"}]
    /\ UNCHANGED <<events, fav, pc, variant, response, df, transformed, log, outcome,
                   runs, batch>>

AggNext == AggregateDag \/ AggregateScript

AggSpec == AggInit /\ [][AggNext]_vars

-----------------------------------------------------------------------------
(* Properties *)

RowSet(rows) == { rows[i] : i \in 1..Len(rows) }

Rejections == {"ValueError", "Exception"}

LoadStep == pc = "load" /\ pc' = "done"

\* C1: every row of my_played_tracks stays in the table, whatever a run does:
\* no step removes or replaces a stored row.
C1_EventsNeverRemoved ==
    [][RowSet(events.rows) \subseteq RowSet(events'.rows)]_vars

\* C2: a load of a valid batch of which some played_at are stored and some are
\* new, with the store reachable and the table under its primary key, leaves
\* my_played_tracks holding the rows it held plus the batch's rows with a new
\* played_at, one row per played_at.
C2_OverlapLoadsUnion ==
    [][(/\ LoadStep
        /\ log'.events_write # "OperationalError"
        /\ events.pk
        /\ KeyUnique(events.rows, "played_at")
        /\ KeysOf(df, "played_at") \cap KeysOf(events.rows, "played_at") # {}
        /\ KeysOf(df, "played_at") \ KeysOf(events.rows, "played_at") # {})
       => /\ RowSet(events'.rows) =
               RowSet(events.rows) \cup
               { r \in RowSet(df) : r.played_at \notin KeysOf(events.rows, "played_at") }
          /\ KeyUnique(events'.rows, "played_at")]_vars

StoreAfterLoad(ev, fv) ==
    IF variant = "dag"
    THEN [events |-> ToSqlReplace(ev, df, TRUE).table, fav |-> fv]
    ELSE LET w == load_data_to_db(ev, fv, df, transformed, TRUE, TRUE)
         IN  [events |-> w.events, fav |-> w.fav]

\* C3: when a run is about to load its valid batch and aggregates, loading
\* them twice leaves both tables as loading them once does, and then no two
\* rows of my_played_tracks share a played_at and no two rows of fav_artist
\* share an ID.
C3_LoadIdempotent ==
    pc = "load" =>
        LET once == StoreAfterLoad(events, fav)
            twice == StoreAfterLoad(once.events, once.fav)
        IN  /\ twice = once
            /\ KeyUnique(once.events.rows, "played_at")
            /\ KeyUnique(once.fav.rows, "ID")

WellFormed(item) == Missing \notin {item.name, item.artist, item.played_at}

RECURSIVE WellFormedRows(_)
WellFormedRows(items) ==
    IF items = <<>> THEN <<>>
    ELSE LET i == Head(items)
         IN  (IF WellFormed(i)
              THEN <<Row(i.name, i.artist, i.played_at, Prefix(i.played_at, DateLen))>>
              ELSE <<>>) \o WellFormedRows(Tail(items))

\* C4: when the API answers with an items list, extraction does not fail and
\* the batch it returns holds exactly the items that lack no field, in order,
\* each with its own song_name, artist_name, played_at and date.
C4_MalformedItemsSkipped ==
    (response.kind = "ok" /\ log.extract # "not_called") =>
        /\ log.extract = "ok"
        /\ pc = "quality" => df = WellFormedRows(response.items)

Fatal ==
    \/ response.kind \in {"http_error", "no_items"}
    \/ log.gate \in Rejections
    \/ log.events_write = "OperationalError"
    \/ log.fav_write = "OperationalError"

\* C5: a run that met a transport failure or a non-2xx status, a body without
\* "items", a rejection by the quality gate or a store failure while writing
\* a table ends as a failure; a run that ends successfully without having
\* written extracted zero events.
C5_FatalEndsAsFailure ==
    pc = "done" =>
        /\ Fatal => outcome = "failed"
        /\ (outcome = "success" /\ log.events_write = "not_called")
              => (log.extract = "ok" /\ df = <<>>)

\* C6: the step in which extraction fails or the quality gate rejects the
\* batch ends the run as a failure; the aggregator and the loader have not
\* been invoked in that run and no row of either table is written.
C6_AbortBeforeAggregatorAndLoader ==
    [][(log'.extract = "raised" \/ log'.gate \in Rejections)
       => /\ pc' = "done" /\ outcome' = "failed"
          /\ log'.aggregate = "not_called"
          /\ log'.events_write = "not_called"
          /\ log'.fav_write = "not_called"
          /\ events'.rows = events.rows
          /\ fav'.rows = fav.rows]_vars

\* a run over stored rows was rejected by the quality gate
C6_Witness ==
    /\ pc = "done" /\ outcome = "failed"
    /\ log.gate \in Rejections
    /\ events.rows # <<>>

\* C7: a run whose extraction yielded zero events ends with the gate having
\* returned without raising, the aggregator and the loader not invoked, and
\* success reported.
C7_EmptyBatchSucceeds ==
    (pc = "done" /\ log.extract = "ok" /\ df = <<>>) =>
        /\ log.gate = "False"
        /\ log.aggregate = "not_called"
        /\ log.events_write = "not_called"
        /\ log.fav_write = "not_called"
        /\ outcome = "success"

SharesPlayedAt(d) == \E i, j \in 1..Len(d) : i # j /\ d[i].played_at = d[j].played_at

\* C8: a non-empty batch in which two events share a played_at is rejected by
\* the quality gate with an error, and the batch of a run whose aggregator or
\* loader was invoked has no two events sharing a played_at.
C8_DuplicatePlayedAtRejected ==
    /\ (log.gate # "not_called" /\ SharesPlayedAt(df))
          => /\ log.gate \in Rejections
             /\ outcome = "failed"
    /\ (\/ log.aggregate # "not_called"
        \/ log.events_write # "not_called"
        \/ log.fav_write # "not_called") => ~SharesPlayedAt(df)

\* both gates have rejected a batch with a repeated played_at
C8_Witness ==
    /\ pc = "done" /\ SharesPlayedAt(df)
    /\ log.gate \in Rejections
    /\ ~isnull_any(df)

NullOrEmpty(x) == x = None \/ x = <<>>

HasNullOrEmpty(d) ==
    \E i \in 1..Len(d) :
        \/ NullOrEmpty(d[i].song_name)
        \/ NullOrEmpty(d[i].artist_name)
        \/ NullOrEmpty(d[i].played_at)
        \/ NullOrEmpty(d[i].timestamp)

\* C9: a non-empty batch in which a field of an event is null or the empty
\* string is rejected by the quality gate; the gate accepts a batch only if
\* every field of every event is non-null and non-empty.
C9_NullOrEmptyRejected ==
    /\ (log.gate # "not_called" /\ df # <<>> /\ HasNullOrEmpty(df))
          => log.gate \in Rejections
    /\ log.gate = "True" => ~HasNullOrEmpty(df)

SamePair(r, o) == r.timestamp = o.timestamp /\ r.artist_name = o.artist_name

\* C10: on a batch the gate accepts, each aggregator outputs exactly one
\* record for each (date, artist_name) pair of the batch and none for other
\* pairs; the record's ID is date + "-" + artist_name and its count is the
\* number of events of the batch with that pair.
C10_AggregationCorrect ==
    \A v \in out.done :
        (data_quality(batch) = "True" /\ Data_Quality(batch) = "True") =>
            LET o == out[v]
            IN  /\ \A i \in 1..Len(batch) :
                      Cardinality({ g \in 1..Len(o) : SamePair(o[g], batch[i]) }) = 1
                /\ \A g \in 1..Len(o) :
                      /\ \E i \in 1..Len(batch) : SamePair(o[g], batch[i])
                      /\ o[g].ID = o[g].timestamp \o <<"-">> \o o[g].artist_name
                      /\ o[g].count =
                            Cardinality({ i \in 1..Len(batch) : SamePair(o[g], batch[i]) })

D1 == <<"2","0","2","4","-","0","1","-","0","1">>   \* 2024-01-01

\* the worked example: two events of (2024-01-01, A) and one of (2024-01-01, B)
C10_Witness ==
    /\ out.done = {"dag", "script"}
    /\ batch = << Row(SongS, ArtistA, T1, D1), Row(SongS, ArtistB, T3, D1),
                  Row(SongS, ArtistA, T2, D1) >>
    /\ out.dag = << [ID |-> D1 \o <<"-", "A">>, timestamp |-> D1,
                     artist_name |-> ArtistA, count |-> 2],
                    [ID |-> D1 \o <<"-", "B">>, timestamp |-> D1,
                     artist_name |-> ArtistB, count |-> 1] >>
    /\ out.script = out.dag

IndexPermutations(n) == { p \in [1..n -> 1..n] : \A i, j \in 1..n : p[i] = p[j] => i = j }

Permuted(d, p) == [i \in 1..Len(d) |-> d[p[i]]]

Aggregated(v, d) == IF v = "dag" THEN transform_df(d) ELSE Transform_df(d)

\* C11: on a batch the gate accepts, each aggregator gives for every
\* permutation of the batch the very sequence of records (ID, date,
\* artist_name, count) it gives for the batch, and the IDs of that sequence
\* are in strictly ascending order.
C11_CanonicalOrder ==
    \A v \in out.done :
        (data_quality(batch) = "True" /\ Data_Quality(batch) = "True") =>
            /\ \A p \in IndexPermutations(Len(batch)) :
                  Aggregated(v, Permuted(batch, p)) = out[v]
            /\ \A g \in 1..(Len(out[v]) - 1) : StrLess(out[v][g].ID, out[v][g + 1].ID)

\* a batch given in descending order of its pairs was aggregated into
\* several records by both aggregators
C11_Witness ==
    /\ out.done = {"dag", "script"}
    /\ data_quality(batch) = "True"
    /\ Len(batch) >= 2
    /\ \A i \in 1..(Len(batch) - 1) :
          KeyLess(<<batch[i + 1].timestamp, batch[i + 1].artist_name>>,
                  <<batch[i].timestamp, batch[i].artist_name>>)
    /\ Len(out.dag) = Len(batch)
    /\ Len(out.script) = Len(batch)

WriteFailures == {"IntegrityError", "OperationalError"}

KeyConflict(rows, frame, col) ==
    \/ ~KeyUnique(frame, col)
    \/ KeysOf(frame, col) \cap KeysOf(rows, col) # {}

\* C12: in load_data_to_db each of the two writes is attempted whatever the
\* other does: a write that succeeds appends its frame to its table, also
\* when the other write fails; a write that fails leaves its table as it was;
\* and a write is rejected for its keys only if its own frame conflicts with
\* its own table.
C12_TargetsIndependent ==
    [][(variant = "script" /\ LoadStep)
       => /\ log'.events_write \in {"ok"} \cup WriteFailures
          /\ log'.fav_write \in {"ok"} \cup WriteFailures
          /\ log'.events_write = "ok" => events'.rows = events.rows \o df
          /\ log'.events_write \in WriteFailures => events' = events
          /\ log'.events_write = "IntegrityError"
                => KeyConflict(events.rows, df, "played_at")
          /\ log'.fav_write = "ok" => fav'.rows = fav.rows \o transformed
          /\ log'.fav_write \in WriteFailures => fav' = fav
          /\ log'.fav_write = "IntegrityError"
                => KeyConflict(fav.rows, transformed, "ID")]_vars

\* the write of the events failed and the aggregates of the same call are stored
C12_Witness ==
    /\ pc = "done" /\ variant = "script"
    /\ log.events_write \in WriteFailures
    /\ log.fav_write = "ok"
    /\ fav.rows = transformed
    /\ transformed # <<>>

====
